---------------------------- MODULE Spec2Model ----------------------------
(***************************************************************************)
(* A model of FieldDetector (src/field-detector.js): the classification of *)
(* form elements as password and username fields and the pairing of each   *)
(* password field with the closest preceding username field.               *)
(*                                                                         *)
(* A JavaScript string is a sequence of one-character strings, so that     *)
(* toLowerCase, the regular-expression replacements, split and includes    *)
(* are computed character by character as the code computes them.          *)
(***************************************************************************)
EXTENDS Integers, Sequences, FiniteSets, TLC

VARIABLES
  document,     \* the tree the caller passes as the `document` argument
  ambient,      \* what the global `document` (window.document) is:
                \* "supplied" (the same tree) or "foreign" (another tree)
  step,         \* kind of the last step: "init", "call" or "mutate"
  op,           \* the last operation called
  argField,     \* its `field` argument (null when not given)
  argPassword,  \* its `passwordField` argument (null when not given)
  outcome,      \* "returned" or "TypeError" (the call threw)
  ret           \* the value the last call returned

vars == <<document, ambient, step, op, argField, argPassword, outcome, ret>>

---------------------------------------------------------------------------
(* Characters and the String methods the detector uses.                    *)

UpperCaseLetters ==
  <<"A","B","C","D","E","F","G","H","I","J","K","L","M",
    "N","O","P","Q","R","S","T","U","V","W","X","Y","Z">>

LowerCaseLetters ==
  <<"a","b","c","d","e","f","g","h","i","j","k","l","m",
    "n","o","p","q","r","s","t","u","v","w","x","y","z">>

Range(s) == {s[i] : i \in DOMAIN s}

Upper == Range(UpperCaseLetters)
Lower == Range(LowerCaseLetters)
Digit == {"0","1","2","3","4","5","6","7","8","9"}

\* The value of a truthy attribute that is not a string (a number such as 123):
\* it survives filter(Boolean) and has no toLowerCase method.
NonString == <<"#123">>

IsString(value) == value # NonString

\* filter(Boolean) keeps the truthy values: everything but '' (and null/undefined,
\* which the model does not tell from the empty string).
Truthy(value) == value # <<>>

toLowerCaseChar(c) ==
  IF c \in Upper
    THEN LowerCaseLetters[CHOOSE i \in DOMAIN UpperCaseLetters : UpperCaseLetters[i] = c]
    ELSE c

toLowerCase(s) == [i \in DOMAIN s |-> toLowerCaseChar(s[i])]

includes(s, sub) ==
  \E i \in 0..(Len(s) - Len(sub)) : SubSeq(s, i + 1, i + Len(sub)) = sub

\* value.toLowerCase().replace(/[\s_-]/g, '')
WhitespaceOrSeparator == {" ", "_", "-"}
SeparatorStrip(value) ==
  SelectSeq(toLowerCase(value), LAMBDA c : c \notin WhitespaceOrSeparator)

\* s.replace(/[^a-zA-Z0-9]+/g, '')
AlphaNumericOnly(s) ==
  SelectSeq(s, LAMBDA c : c \in Lower \cup Upper \cup Digit)

\* s.replace(/([a-z])([A-Z])/g, '$1 $2'): a space between a lower-case letter
\* and the upper-case letter that follows it.
RECURSIVE CamelCaseSplit(_)
CamelCaseSplit(s) ==
  IF Len(s) < 2 THEN s
  ELSE IF s[1] \in Lower /\ s[2] \in Upper
    THEN <<s[1], " ">> \o CamelCaseSplit(Tail(s))
    ELSE <<s[1]>> \o CamelCaseSplit(Tail(s))

\* s.split(/[^a-z]/gi): the pieces between the characters that are no letter,
\* as a set (the code only asks whether some piece is in a vocabulary; the
\* empty pieces are in none).
IsLetter(c) == c \in Lower \cup Upper
SplitOnNonLetters(s) ==
  { SubSeq(s, i, j) : <<i, j>> \in
      { p \in (DOMAIN s) \X (DOMAIN s) :
          /\ p[1] <= p[2]
          /\ \A k \in p[1]..p[2] : IsLetter(s[k])
          /\ (p[1] = 1 \/ ~IsLetter(s[p[1] - 1]))
          /\ (p[2] = Len(s) \/ ~IsLetter(s[p[2] + 1])) } }

---------------------------------------------------------------------------
(* The vocabularies set by the constructor.                                *)

usernameFieldNames ==
  << <<"u","s","e","r","n","a","m","e">>, <<"u","s","e","r"," ","n","a","m","e">>, <<"u","s","e","r","i","d">>, <<"u","s","e","r"," ","i","d">>, <<"c","u","s","t","o","m","e","r"," ","i","d">>,
     <<"l","o","g","i","n"," ","i","d">>, <<"l","o","g","i","n">>,
     <<"b","e","n","u","t","z","e","r","n","a","m","e">>, <<"b","e","n","u","t","z","e","r"," ","n","a","m","e">>, <<"b","e","n","u","t","z","e","r","i","d">>, <<"b","e","n","u","t","z","e","r"," ","i","d">>,
     <<"e","m","a","i","l">>, <<"e","m","a","i","l"," ","a","d","d","r","e","s","s">>, <<"e","-","m","a","i","l">>, <<"e","-","m","a","i","l"," ","a","d","d","r","e","s","s">>,
     <<"e","m","a","i","l"," ","a","d","r","e","s","s","e">>, <<"e","-","m","a","i","l"," ","a","d","r","e","s","s","e">> >>

passwordFieldExcludeList ==
  << <<"h","i","n","t">>, <<"c","a","p","t","c","h","a">>, <<"f","i","n","d","a","n","y","t","h","i","n","g">>, <<"f","o","r","g","o","t">>, <<"t","o","t","p">>, <<"t","o","t","p","c","o","d","e">>,
     <<"2","f","a","c","o","d","e">>, <<"m","f","a","c","o","d","e">>, <<"o","t","c","-","c","o","d","e">>, <<"o","n","e","t","i","m","e","c","o","d","e">>, <<"o","t","p","-","c","o","d","e">>,
     <<"o","t","p","c","o","d","e">>, <<"s","e","c","u","r","i","t","y","_","c","o","d","e">>, <<"t","w","o","f","a","c","t","o","r">>, <<"t","w","o","f","a">>, <<"t","w","o","f","a","c","t","o","r","c","o","d","e">>,
     <<"v","e","r","i","f","i","c","a","t","i","o","n","c","o","d","e">>, <<"v","e","r","i","f","i","c","a","t","i","o","n"," ","c","o","d","e">> >>

excludedInputTypes ==
  {"hidden", "submit", "reset", "button", "image", "file", "radio", "checkbox"}

searchFieldNames == { <<"s","e","a","r","c","h">>, <<"q","u","e","r","y">>, <<"f","i","n","d">>, <<"g","o">> }

---------------------------------------------------------------------------
(* Elements.  An element is a record: uid is its identity (=== compares    *)
(* identities), tag its tag name, type its .type as a TLA+ string,         *)
(* id/name/placeholder/ariaLabel its attributes ('' when not set), form    *)
(* the identity of closest('form') (0: none), parentLabel the textContent  *)
(* of closest('label') ('' when there is none or it is empty), for/text    *)
(* the htmlFor and textContent of a label element, and dom whether the     *)
(* object has the Element methods closest and getAttribute.                *)

null ==
  [uid |-> 0, tag |-> "null", type |-> "", id |-> <<>>, name |-> <<>>,
   placeholder |-> <<>>, ariaLabel |-> <<>>, disabled |-> FALSE, form |-> 0,
   parentLabel |-> <<>>, for |-> <<>>, text |-> <<>>, dom |-> FALSE]

\* An input element of the given type, or a textarea (whose type is
\* "textarea")
Input(uid, type, id, name, placeholder) ==
  [null EXCEPT !.uid = uid,
               !.tag = IF type = "textarea" THEN "textarea" ELSE "input",
               !.type = type, !.id = id,
               !.name = name, !.placeholder = placeholder, !.dom = TRUE]

Label(uid, for, text) ==
  [null EXCEPT !.uid = uid, !.tag = "label", !.for = for, !.text = text,
               !.dom = TRUE]

\* field.type as the string the regular expressions see
TypeString(type) ==
  CASE type = "password" -> <<"p","a","s","s","w","o","r","d">>
    [] type = "text"     -> <<"t","e","x","t">>
    [] type = "email"    -> <<"e","m","a","i","l">>
    [] type = "tel"      -> <<"t","e","l">>
    [] type = "search"   -> <<"s","e","a","r","c","h">>
    [] type = "hidden"   -> <<"h","i","d","d","e","n">>
    [] type = "textarea" -> <<"t","e","x","t","a","r","e","a">>
    [] OTHER             -> <<>>

\* closest('form'), and the action and method of the forms of the pages
closestForm(field) == field.form
formAction(form) == IF form = 1 THEN "/login" ELSE "/signup"
formMethod(form) == IF form = 1 THEN "post" ELSE "get"

\* The global `document` that getFieldLabel and getElementIndex read.
ForeignDocument ==
  << Label(90, <<"a","c","c","t">>, <<"U","s","e","r","n","a","m","e">>),
     Input(91, "text", <<"q">>, <<"q">>, <<>>) >>

WindowDocument == IF ambient = "supplied" THEN document ELSE ForeignDocument

querySelectorAll(doc, tags) == SelectSeq(doc, LAMBDA e : e.tag \in tags)


---------------------------------------------------------------------------
(* Pages: the elements a document is built from.  Form 1 holds two         *)
(* username candidates and a password field; a third candidate and a       *)
(* second password field stand outside every form; the account field is a  *)
(* username field only through a label; the textarea is named like a      *)
(* password field.                                                         *)

MaxDocLen == 3

emailField    == [Input(1, "text", <<>>, <<"e","m","a","i","l">>, <<>>) EXCEPT !.form = 1]
usernameField == [Input(2, "text", <<"u","s","e","r","n","a","m","e">>, <<>>, <<>>) EXCEPT !.form = 1]
loginField    == Input(3, "email", <<>>, <<"l","o","g","i","n">>, <<>>)
passwordInput == [Input(4, "password", <<>>, <<"p","a","s","s","w","o","r","d">>, <<>>) EXCEPT !.form = 1]
pinInput      == Input(5, "text", <<"P","a","s","s","w","o","r","d">>, <<>>, <<>>)
accountField  == [Input(6, "text", <<"a","c","c","t">>, <<>>, <<>>) EXCEPT !.form = 2]
accountLabel  == Label(7, <<"a","c","c","t">>, <<"E","-","M","a","i","l"," ","A","d","r","e","s","s","e">>)
commentArea   == [Input(8, "textarea", <<>>, <<"p","a","s","s","w","o","r","d">>, <<>>) EXCEPT !.form = 1]

Palette ==
  {emailField, usernameField, loginField, passwordInput, pinInput,
   accountField, accountLabel, commentArea}

---------------------------------------------------------------------------
(* Single fields: the inputs of the predicates.  One attribute of a field  *)
(* takes every value of a list, a second one a few values, the third is    *)
(* not set.                                                                *)

\* Every entry of the exclude list, every entry inside a longer value, and
\* values with and without "password".
PasswordAttrValues ==
  Range(passwordFieldExcludeList)
    \cup { <<"x">> \o passwordFieldExcludeList[k] \o <<"1">> :
             k \in DOMAIN passwordFieldExcludeList }
    \cup { <<"p","a","s","s","w","o","r","d">>, <<"p","a","s","s","w","o","r","d","_","h","i","n","t">>, <<"n","e","w","-","p","a","s","s","w","o","r","d">>, <<"P","a","s","s"," ","W","o","r","d">>,
           <<"u","s","e","r","_","p","a","s","s","w","o","r","d">>, <<"P","A","S","S","W","O","R","D">>, <<"p","a","s","s","w","o","r","t">>, <<"p","i","n">>, NonString }

UsernameAttrValues ==
  { <<"u","s","e","r","n","a","m","e">>, <<"u","s","e","r","_","n","a","m","e">>, <<"U","s","e","r"," ","I","D">>, <<"E","-","M","a","i","l">>, <<"e","-","m","a","i","l"," ","a","d","r","e","s","s","e">>,
    <<"B","e","n","u","t","z","e","r","n","a","m","e">>, <<"l","o","g","i","n","I","d">>, <<"c","u","s","t","o","m","e","r","-","i","d">>, <<"Y","o","u","r"," ","e","m","a","i","l"," ","a","d","d","r","e","s","s">>,
    <<"n","i","c","k","n","a","m","e">>, <<"f","i","r","s","t"," ","n","a","m","e">>, <<"p","h","o","n","e">>,
    <<"s","e","a","r","c","h","-","q","u","e","r","y">>, <<"s","e","a","r","c","h","B","o","x">>, <<"f","i","n","d","U","s","e","r">>, <<"S","e","a","r","c","h">>, <<"g","o">>, <<"u","s","e","r","Q","u","e","r","y">>,
    <<"g","o","p","h","e","r">>, <<"c","a","t","e","g","o","r","y">>, NonString }

SecondAttrValues == { <<>>, <<"p","a","s","s","w","o","r","d">>, <<"e","m","a","i","l">>, NonString }

\* slot 1: id = v, name = w; slot 2: name = v, placeholder = w;
\* slot 3: placeholder = v, id = w
FieldOf(uid, type, slot, v, w) ==
  CASE slot = 1 -> Input(uid, type, v, w, <<>>)
    [] slot = 2 -> Input(uid, type, <<>>, v, w)
    [] slot = 3 -> Input(uid, type, w, <<>>, v)

PasswordCaseFields ==
  { [FieldOf(2, type, slot, v, w) EXCEPT !.disabled = disabled] :
      type \in {"password", "text", "email", "textarea"}, slot \in 1..3,
      v \in PasswordAttrValues, w \in SecondAttrValues \ {<<"e","m","a","i","l">>},
      disabled \in BOOLEAN }

UsernameCaseFields ==
  { FieldOf(2, type, slot, v, w) :
      type \in {"text", "email", "tel", "password", "hidden"}, slot \in 1..3,
      v \in UsernameAttrValues, w \in {<<>>, <<"e","m","a","i","l">>} }

\* A disabled field, and plain objects: no closest, no getAttribute.
SpecialCaseFields ==
  { [Input(2, "text", <<"u","s","e","r","n","a","m","e">>, <<>>, <<>>) EXCEPT !.disabled = TRUE],
    [Input(2, "text", <<"u","s","e","r","n","a","m","e">>, <<>>, <<>>) EXCEPT !.dom = FALSE],
    [Input(2, "text", <<>>, <<"n","i","c","k","n","a","m","e">>, <<>>) EXCEPT !.dom = FALSE],
    [Input(2, "password", <<>>, <<"p","a","s","s","w","o","r","d">>, <<>>) EXCEPT !.dom = FALSE] }

thePassword == Input(3, "password", <<>>, <<"p","a","s","s","w","o","r","d">>, <<>>)

\* The field with a label: none, a label for its id, a label around it, or
\* an aria-label.
Labelled(field, extra) ==
  CASE extra = "parent" -> [field EXCEPT !.parentLabel = <<"E","-","M","a","i","l"," ","A","d","d","r","e","s","s">>]
    [] extra = "aria"   -> [field EXCEPT !.ariaLabel = <<"L","o","g","i","n"," ","I","D">>]
    [] OTHER            -> field

LabelsOf(field, extra) ==
  IF extra = "for" /\ Truthy(field.id) /\ IsString(field.id)
    THEN << Label(1, field.id, <<"B","e","n","u","t","z","e","r"," ","N","a","m","e">>) >>
    ELSE << >>

\* A case: the field, the password field given with it (or null), and the
\* page they stand on (where: the field before or after the password field).
Case(field, extra, where) ==
  LET f == Labelled(field, extra)
  IN  [ field         |-> f,
        passwordField |-> IF where = "alone" THEN null ELSE thePassword,
        page          |-> CASE where = "alone"  -> LabelsOf(f, extra) \o <<f>>
                            [] where = "before" ->
                                 LabelsOf(f, extra) \o <<f, thePassword>>
                            [] where = "after"  ->
                                 <<thePassword>> \o LabelsOf(f, extra) \o <<f>> ]

FieldCases ==
  { Case(field, "none", "alone") : field \in PasswordCaseFields }
    \cup { Case(field, extra, where) :
             field \in UsernameCaseFields \cup SpecialCaseFields,
             extra \in {"none", "for", "parent", "aria"},
             where \in {"alone", "before", "after"} }
    \cup { [field |-> null, passwordField |-> null, page |-> << >>],
           [field |-> null, passwordField |-> thePassword,
            page |-> <<thePassword>>] }

\* Every string the fields and labels of the model carry.
Elements ==
  Palette \cup Range(ForeignDocument) \cup {null}
    \cup UNION { Range(c.page) : c \in FieldCases }

Strings ==
  UNION { {e.id, e.name, e.placeholder, e.ariaLabel, e.parentLabel, e.text,
           TypeString(e.type)} : e \in Elements }

---------------------------------------------------------------------------
(* The classifiers.  For a method m, mThrows says whether evaluating m     *)
(* raises a TypeError (a method called on null, on a non-string or on an   *)
(* object that does not have it); the value of m is meaningful only where  *)
(* mThrows is false.  A loop that returns early throws only when it meets  *)
(* the offending value before it returns.                                  *)

\* [field.id, field.name, field.placeholder].filter(Boolean)
idNamePlaceholder(field) ==
  SelectSeq(<<field.id, field.name, field.placeholder>>, Truthy)

\* this.passwordFieldExcludeList.some(exclude => cleanValue.includes(exclude))
someExcludeIncluded(cleanValue) ==
  \E k \in DOMAIN passwordFieldExcludeList :
    includes(cleanValue, passwordFieldExcludeList[k])

\* The first value of the loop that is no string is reached: no earlier
\* iteration returned (returns[v]: the iteration on value v returns).
LoopThrows(values, returns) ==
  \E k \in DOMAIN values :
    /\ ~IsString(values[k])
    /\ \A j \in 1..(k - 1) : ~returns[values[j]]

DisqualifyingValue(value) == someExcludeIncluded(SeparatorStrip(value))

\* evaluated once for each string of the model
DisqualifyingValueOf == [value \in Strings |-> DisqualifyingValue(value)]

hasDisqualifyingValue(field) ==
  LET values == idNamePlaceholder(field)
  IN  \E k \in DOMAIN values : DisqualifyingValueOf[values[k]]

hasDisqualifyingValueThrows(field) ==
  LoopThrows(idNamePlaceholder(field), DisqualifyingValueOf)

PasswordLikeValue(value) ==
  LET cleanValue == SeparatorStrip(value)
  IN  includes(cleanValue, <<"p","a","s","s","w","o","r","d">>) /\ ~someExcludeIncluded(cleanValue)

PasswordLikeValueOf == [value \in Strings |-> PasswordLikeValue(value)]

isLikePassword(field) ==
  LET values == idNamePlaceholder(field)
  IN  \E k \in DOMAIN values : PasswordLikeValueOf[values[k]]

isLikePasswordThrows(field) ==
  LoopThrows(idNamePlaceholder(field), PasswordLikeValueOf)

\* A text field that looks like a password is accepted without the look
\* at its other values.
isPasswordFieldTextUnchecked(field) ==
  IF field = null \/ field.disabled THEN FALSE
  ELSE IF field.type = "password" THEN ~hasDisqualifyingValue(field)
  ELSE IF field.type = "text" /\ isLikePassword(field) THEN TRUE
  ELSE FALSE

isPasswordField(field) ==
  IF field = null \/ field.disabled THEN FALSE
  ELSE IF field.type = "password" THEN ~hasDisqualifyingValue(field)
  ELSE IF field.type = "text" /\ isLikePassword(field)
    THEN ~hasDisqualifyingValue(field)
  ELSE FALSE

isPasswordFieldThrows(field) ==
  IF field = null \/ field.disabled THEN FALSE
  ELSE IF field.type = "password" THEN hasDisqualifyingValueThrows(field)
  ELSE IF field.type = "text"
    THEN \/ isLikePasswordThrows(field)
         \/ isLikePassword(field) /\ hasDisqualifyingValueThrows(field)
  ELSE FALSE

\* value.toLowerCase().replace(/([a-z])([A-Z])/g, '$1 $2').split(/[^a-z]/gi)
searchWords(value) == SplitOnNonLetters(CamelCaseSplit(toLowerCase(value)))

SearchValue(value) == searchWords(value) \cap searchFieldNames # {}

\* [field.type, field.name, field.id, field.placeholder].filter(Boolean)
typeNameIdPlaceholder(field) ==
  SelectSeq(<<TypeString(field.type), field.name, field.id, field.placeholder>>,
            Truthy)

SearchValueOf == [value \in Strings |-> SearchValue(value)]

isSearchField(field) ==
  LET values == typeNameIdPlaceholder(field)
  IN  \E k \in DOMAIN values : SearchValueOf[values[k]]

isSearchFieldThrows(field) ==
  LoopThrows(typeNameIdPlaceholder(field), SearchValueOf)

\* document.querySelector(`label[for="${field.id}"]`) on the global document
labelFor(win, id) ==
  SelectSeq(win, LAMBDA e : e.tag = "label" /\ e.for = id)

getFieldLabel(win, field) ==
  IF Truthy(field.id) /\ labelFor(win, field.id) # <<>>
    THEN labelFor(win, field.id)[1].text
    ELSE field.parentLabel

getFieldLabelThrows(win, field) ==
  \/ field = null
  \/ /\ ~(Truthy(field.id) /\ labelFor(win, field.id) # <<>>)
     /\ ~field.dom

\* Array.from(document.querySelectorAll('*')).indexOf(element) on the global
\* document
getElementIndex(win, element) ==
  IF \E i \in DOMAIN win : win[i].uid = element.uid
    THEN (CHOOSE i \in DOMAIN win : win[i].uid = element.uid) - 1
    ELSE -1

\* name.replace(/[^a-zA-Z0-9]+/g, '') of every name of the vocabulary
cleanUsernameFieldNames ==
  [n \in DOMAIN usernameFieldNames |-> AlphaNumericOnly(usernameFieldNames[n])]

UsernameValue(attr) ==
  LET cleanAttr == AlphaNumericOnly(toLowerCase(attr))
  IN  \E n \in DOMAIN usernameFieldNames :
        \/ cleanAttr = cleanUsernameFieldNames[n]
        \/ includes(cleanAttr, cleanUsernameFieldNames[n])

\* [field.id, field.name, field.placeholder, this.getFieldLabel(field),
\*  field.getAttribute('aria-label')].filter(Boolean)
usernameAttributes(win, field) ==
  SelectSeq(<<field.id, field.name, field.placeholder,
              getFieldLabel(win, field), field.ariaLabel>>, Truthy)

UsernameValueOf == [attr \in Strings |-> UsernameValue(attr)]

matchesUsernamePattern(win, field) ==
  LET attributes == usernameAttributes(win, field)
  IN  \E k \in DOMAIN attributes : UsernameValueOf[attributes[k]]

matchesUsernamePatternThrows(win, field) ==
  \/ getFieldLabelThrows(win, field)
  \/ ~field.dom
  \/ LoopThrows(usernameAttributes(win, field), UsernameValueOf)

isUsernameField(win, field, passwordField) ==
  IF field = null \/ field.disabled \/ field.type \in excludedInputTypes
    THEN FALSE
  ELSE IF field.type \notin {"text", "email", "tel"} THEN FALSE
  ELSE IF isSearchField(field) THEN FALSE
  ELSE IF /\ passwordField # null
          /\ getElementIndex(win, field) >= getElementIndex(win, passwordField)
    THEN FALSE
  ELSE matchesUsernamePattern(win, field)

isUsernameFieldThrows(win, field, passwordField) ==
  IF field = null \/ field.disabled \/ field.type \in excludedInputTypes
    THEN FALSE
  ELSE IF field.type \notin {"text", "email", "tel"} THEN FALSE
  ELSE IF isSearchFieldThrows(field) THEN TRUE
  ELSE IF isSearchField(field) THEN FALSE
  ELSE IF /\ passwordField # null
          /\ getElementIndex(win, field) >= getElementIndex(win, passwordField)
    THEN FALSE
  ELSE matchesUsernamePatternThrows(win, field)

---------------------------------------------------------------------------
(* Detection over a document.                                              *)

\* A detector that remembers its last result.
detectPasswordFieldsCached(doc) ==
  IF op = "detectPasswordFields"
    THEN ret
    ELSE SelectSeq(querySelectorAll(doc, {"input", "textarea"}), isPasswordField)

detectPasswordFields(doc) ==
  SelectSeq(querySelectorAll(doc, {"input", "textarea"}), isPasswordField)

detectPasswordFieldsThrows(doc) ==
  LET allInputs == querySelectorAll(doc, {"input", "textarea"})
  IN  \E i \in DOMAIN allInputs : isPasswordFieldThrows(allInputs[i])

detectUsernameFields(win, doc, passwordField) ==
  SelectSeq(querySelectorAll(doc, {"input"}),
            LAMBDA field : isUsernameField(win, field, passwordField))

detectUsernameFieldsThrows(win, doc, passwordField) ==
  LET allInputs == querySelectorAll(doc, {"input"})
  IN  \E i \in DOMAIN allInputs :
        isUsernameFieldThrows(win, allInputs[i], passwordField)

\* The first candidate instead of the last.
findUsernameForPasswordFirst(win, passwordField, doc) ==
  LET form == closestForm(passwordField)
      candidates == detectUsernameFields(win, doc, passwordField)
      filteredCandidates ==
        IF form # 0
          THEN SelectSeq(candidates, LAMBDA field : closestForm(field) = form)
          ELSE candidates
  IN  IF Len(filteredCandidates) > 0 THEN filteredCandidates[1] ELSE null

\* The candidates are not filtered by form.
findUsernameForPasswordAnyForm(win, passwordField, doc) ==
  LET candidates == detectUsernameFields(win, doc, passwordField)
  IN  IF Len(candidates) > 0 THEN candidates[Len(candidates)] ELSE null

findUsernameForPassword(win, passwordField, doc) ==
  LET form == closestForm(passwordField)
      candidates == detectUsernameFields(win, doc, passwordField)
      filteredCandidates ==
        IF form # 0
          THEN SelectSeq(candidates, LAMBDA field : closestForm(field) = form)
          ELSE candidates
  IN  IF Len(filteredCandidates) > 0
        THEN filteredCandidates[Len(filteredCandidates)]
        ELSE null

findUsernameForPasswordThrows(win, passwordField, doc) ==
  \/ passwordField = null
  \/ ~passwordField.dom
  \/ detectUsernameFieldsThrows(win, doc, passwordField)

\* The action and method are read from the form without asking whether
\* there is one.
getLoginFormsFormUnchecked(win, doc) ==
  LET passwordFields == detectPasswordFields(doc)
  IN  [ i \in 1..Len(passwordFields) |->
          LET passwordField == passwordFields[i]
              form == closestForm(passwordField)
          IN  [ form          |-> form,
                passwordField |-> passwordField,
                usernameField |-> findUsernameForPassword(win, passwordField, doc),
                formAction    |-> formAction(form),
                formMethod    |-> formMethod(form) ] ]

getLoginForms(win, doc) ==
  LET passwordFields == detectPasswordFields(doc)
  IN  [ i \in 1..Len(passwordFields) |->
          LET passwordField == passwordFields[i]
              form == closestForm(passwordField)
          IN  [ form          |-> form,
                passwordField |-> passwordField,
                usernameField |-> findUsernameForPassword(win, passwordField, doc),
                formAction    |-> IF form # 0 THEN formAction(form) ELSE "null",
                formMethod    |-> IF form # 0 THEN formMethod(form) ELSE "null" ] ]

getLoginFormsThrows(win, doc) ==
  \/ detectPasswordFieldsThrows(doc)
  \/ LET passwordFields == detectPasswordFields(doc)
     IN  \E i \in DOMAIN passwordFields :
           findUsernameForPasswordThrows(win, passwordFields[i], doc)

---------------------------------------------------------------------------
(* Changing and enumerating pages.                                         *)

InDocument(doc, e) == \E i \in DOMAIN doc : doc[i].uid = e.uid

InsertAt(doc, pos, e) ==
  SubSeq(doc, 1, pos) \o <<e>> \o SubSeq(doc, pos + 1, Len(doc))

RemoveAt(doc, i) == SubSeq(doc, 1, i - 1) \o SubSeq(doc, i + 1, Len(doc))

\* The pages of at most MaxDocLen elements, in every order.
Documents ==
  UNION { { doc \in [1..n -> Palette] :
              \A i, j \in 1..n : i # j => doc[i].uid # doc[j].uid } :
          n \in 0..MaxDocLen }

\* What a call leaves in the caller's hands.
Called(name, field, passwordField, throws, value) ==
  /\ step' = "call"
  /\ op' = name
  /\ argField' = field
  /\ argPassword' = passwordField
  /\ outcome' = IF throws THEN "TypeError" ELSE "returned"
  /\ ret' = IF throws THEN <<>> ELSE value
  /\ UNCHANGED <<document, ambient>>

NothingCalled ==
  /\ step = "init"
  /\ op = "none"
  /\ outcome = "returned"
  /\ ret = <<>>

---------------------------------------------------------------------------
(* Spec: the document-level operations, applied to every page, with the    *)
(* global document being the page itself or another tree.                  *)

Init ==
  /\ document \in Documents
  /\ ambient \in {"supplied", "foreign"}
  /\ argField = null
  /\ argPassword = null
  /\ NothingCalled

DetectPasswordFieldsCall ==
  Called("detectPasswordFields", null, null,
         detectPasswordFieldsThrows(document),
         detectPasswordFields(document))

DetectUsernameFieldsCall ==
  \E i \in DOMAIN document \cup {0} :
    LET passwordField == IF i = 0 THEN null ELSE document[i]
    IN  /\ i # 0 => isPasswordField(passwordField)
        /\ Called("detectUsernameFields", null, passwordField,
                  detectUsernameFieldsThrows(WindowDocument, document, passwordField),
                  detectUsernameFields(WindowDocument, document, passwordField))

FindUsernameForPasswordCall ==
  \E i \in DOMAIN document :
    /\ isPasswordField(document[i])
    /\ Called("findUsernameForPassword", null, document[i],
              findUsernameForPasswordThrows(WindowDocument, document[i], document),
              findUsernameForPassword(WindowDocument, document[i], document))

GetLoginFormsCall ==
  Called("getLoginForms", null, null,
         getLoginFormsThrows(WindowDocument, document),
         getLoginForms(WindowDocument, document))

Next ==
  \/ DetectPasswordFieldsCall
  \/ DetectUsernameFieldsCall
  \/ FindUsernameForPasswordCall
  \/ GetLoginFormsCall

Spec == Init /\ [][Next]_vars

---------------------------------------------------------------------------
(* MutationSpec: detection calls interleaved with changes of the page.     *)
(* The caller keeps the result of its last call while the page changes.    *)

MutationInit ==
  /\ document = <<>>
  /\ ambient \in {"supplied", "foreign"}
  /\ argField = null
  /\ argPassword = null
  /\ NothingCalled

InsertElement ==
  /\ Len(document) < MaxDocLen
  /\ \E e \in Palette, pos \in 0..Len(document) :
       /\ ~InDocument(document, e)
       /\ document' = InsertAt(document, pos, e)
  /\ step' = "mutate"
  /\ UNCHANGED <<ambient, op, argField, argPassword, outcome, ret>>

RemoveElement ==
  /\ \E i \in DOMAIN document : document' = RemoveAt(document, i)
  /\ step' = "mutate"
  /\ UNCHANGED <<ambient, op, argField, argPassword, outcome, ret>>

MutationNext ==
  \/ InsertElement
  \/ RemoveElement
  \/ DetectPasswordFieldsCall

MutationSpec == MutationInit /\ [][MutationNext]_vars

---------------------------------------------------------------------------
(* FieldSpec: the predicates on single fields, applied to every case.      *)

FieldInit ==
  /\ \E c \in FieldCases :
       /\ argField = c.field
       /\ argPassword = c.passwordField
       /\ document = c.page
  /\ ambient = "supplied"
  /\ NothingCalled

IsPasswordFieldCall ==
  Called("isPasswordField", argField, argPassword,
         isPasswordFieldThrows(argField),
         isPasswordField(argField))

IsUsernameFieldCall ==
  Called("isUsernameField", argField, argPassword,
         isUsernameFieldThrows(WindowDocument, argField, argPassword),
         isUsernameField(WindowDocument, argField, argPassword))

GetFieldLabelCall ==
  Called("getFieldLabel", argField, argPassword,
         getFieldLabelThrows(WindowDocument, argField),
         getFieldLabel(WindowDocument, argField))

\* findUsernameForPassword(passwordField, document) with the password field
\* of the case, which may be null
FindUsernameCall ==
  Called("findUsernameForPassword", argField, argPassword,
         findUsernameForPasswordThrows(WindowDocument, argPassword, document),
         findUsernameForPassword(WindowDocument, argPassword, document))

FieldNext ==
  \/ IsPasswordFieldCall
  \/ IsUsernameFieldCall
  \/ GetFieldLabelCall
  \/ FindUsernameCall

FieldSpec == FieldInit /\ [][FieldNext]_vars

---------------------------------------------------------------------------
(* Properties.  What the specification says of an operation is written     *)
(* from its words, over the positions of the supplied document.            *)

Max(S) == CHOOSE m \in S : \A n \in S : n <= m

\* documentOrderIndex: the position of an element of the document
PositionIn(doc, e) == CHOOSE i \in DOMAIN doc : doc[i].uid = e.uid

\* The k-th smallest member of a set of positions
RECURSIVE Ascending(_)
Ascending(S) ==
  IF S = {} THEN << >> ELSE Ascending(S \ {Max(S)}) \o << Max(S) >>

\* The positions of the fields that qualify as username of password field P:
\* isUsernameField holds of them, and they share P's form when P has one.
CandidatePositions(P) ==
  { i \in DOMAIN document :
      /\ isUsernameField(WindowDocument, document[i], P)
      /\ closestForm(P) # 0 => closestForm(document[i]) = closestForm(P) }

FoundUsername ==
  step = "call" /\ op = "findUsernameForPassword" /\ argPassword # null

\* C1: findUsernameForPassword(P, document) returns the field of greatest
\* document position among the fields F with isUsernameField(F, P) (within
\* P's form when P has one); that field stands strictly before P and is not
\* P; the result is none exactly when there is no such field.
C1_ClosestPrecedingCandidate ==
  FoundUsername =>
    /\ outcome = "returned"
    /\ IF CandidatePositions(argPassword) = {}
         THEN ret = null
         ELSE /\ ret = document[Max(CandidatePositions(argPassword))]
              /\ ret # null
              /\ ret.uid # argPassword.uid
              /\ PositionIn(document, ret) < PositionIn(document, argPassword)

\* Two candidates precede the password field; the later one is returned.
C1_Witness ==
  /\ FoundUsername
  /\ Cardinality(CandidatePositions(argPassword)) >= 2
  /\ ret # null
  /\ \E i \in CandidatePositions(argPassword) : i < PositionIn(document, ret)

\* The positions of the fields that match as username of P but stand in
\* another form, or in none.
OutsidePositions(P) ==
  { i \in DOMAIN document :
      /\ isUsernameField(WindowDocument, document[i], P)
      /\ closestForm(document[i]) # closestForm(P) }

\* C2: when P has an enclosing form, findUsernameForPassword never returns a
\* field of another form or of none: the result is in P's form or is none,
\* whatever matching fields stand outside the form, and it is none only when
\* no matching field of the form precedes P.
C2_FormScoped ==
  (FoundUsername /\ closestForm(argPassword) # 0) =>
    /\ ret # null => closestForm(ret) = closestForm(argPassword)
    /\ \A i \in OutsidePositions(argPassword) : ret.uid # document[i].uid
    /\ ret = null <=>
         ~\E i \in DOMAIN document :
            /\ isUsernameField(WindowDocument, document[i], argPassword)
            /\ closestForm(document[i]) = closestForm(argPassword)

\* A matching field outside the form stands between the returned field and
\* the password field: it is closer, and skipped.
C2_Witness ==
  /\ FoundUsername
  /\ closestForm(argPassword) # 0
  /\ ret # null
  /\ \E i \in OutsidePositions(argPassword) :
       /\ PositionIn(document, ret) < i
       /\ i < PositionIn(document, argPassword)

\* The positions of the password fields of a page
PasswordPositions(doc) ==
  { i \in DOMAIN doc :
      doc[i].tag \in {"input", "textarea"} /\ isPasswordField(doc[i]) }

\* C6: getLoginForms returns one record for each password field of the
\* document, in document order; the record holds that password field, the
\* username field findUsernameForPassword gives for it, and the identity,
\* action and method of the enclosing form, or none of them.
C6_OneRecordPerPasswordField ==
  (step = "call" /\ op = "getLoginForms") =>
    LET positions == Ascending(PasswordPositions(document))
    IN  /\ outcome = "returned"
        /\ Len(ret) = Len(positions)
        /\ \A k \in DOMAIN positions :
             LET P == document[positions[k]]
             IN  /\ ret[k].passwordField = P
                 /\ ret[k].usernameField =
                      IF CandidatePositions(P) = {} THEN null
                      ELSE document[Max(CandidatePositions(P))]
                 /\ ret[k].usernameField =
                      findUsernameForPassword(WindowDocument, P, document)
                 /\ ret[k].form = closestForm(P)
                 /\ IF closestForm(P) # 0
                      THEN /\ ret[k].formAction = formAction(closestForm(P))
                           /\ ret[k].formMethod = formMethod(closestForm(P))
                      ELSE /\ ret[k].formAction = "null"
                           /\ ret[k].formMethod = "null"

\* Two records: one with a username field, one without; one in a form, one
\* in none.
C6_Witness ==
  /\ step = "call" /\ op = "getLoginForms"
  /\ Len(ret) = 2
  /\ \E k \in DOMAIN ret : ret[k].usernameField # null
  /\ \E k \in DOMAIN ret : ret[k].usernameField = null
  /\ \E k \in DOMAIN ret : ret[k].form # 0 /\ ret[k].formAction = "/login"
  /\ \E k \in DOMAIN ret : ret[k].form = 0

\* What a detector that never ran before returns for a page
FreshPasswordFields(doc) ==
  LET positions == Ascending(PasswordPositions(doc))
  IN  [k \in DOMAIN positions |-> doc[positions[k]]]

\* C7: every detectPasswordFields call returns what a fresh detector returns
\* on the document as it is at the call, whatever was returned before and
\* however the document changed since; a call right after a call returns the
\* same sequence; and a call changes neither the document nor the global
\* document.
C7_NoCaching ==
  [][ (step' = "call" /\ op' = "detectPasswordFields") =>
        /\ document' = document
        /\ ambient' = ambient
        /\ outcome' = "returned"
        /\ ret' = FreshPasswordFields(document')
        /\ (step = "call" /\ op = "detectPasswordFields") => ret' = ret ]_vars

\* The caller holds the result of a call, and the document has changed since
\* so that a detection now returns something else.
C7_Witness ==
  /\ step = "mutate"
  /\ op = "detectPasswordFields"
  /\ ret # << >>
  /\ ret # FreshPasswordFields(document)

\* A field as the data model has it: absent, or with string attributes.
StringAttributes(field) ==
  /\ IsString(field.id)
  /\ IsString(field.name)
  /\ IsString(field.placeholder)

\* The id, name and placeholder that are present
PresentValues(field) ==
  {field.id, field.name, field.placeholder} \ {<< >>}

\* Disqualified: a separator-stripped id, name or placeholder contains an
\* entry of the exclude vocabulary.
Disqualified(field) ==
  \E value \in PresentValues(field), k \in DOMAIN passwordFieldExcludeList :
    includes(SeparatorStrip(value), passwordFieldExcludeList[k])

LooksLikePassword(field) ==
  \E value \in PresentValues(field) :
    includes(SeparatorStrip(value), <<"p","a","s","s","w","o","r","d">>)

CalledOn(name) == step = "call" /\ op = name

\* C3: isPasswordField is true exactly when the field is present, not
\* disabled, not disqualified, and either of kind "password" or of kind
\* "text" with an id, name or placeholder that contains "password".
C3_PasswordFieldExactly ==
  (CalledOn("isPasswordField") /\ StringAttributes(argField)) =>
    /\ outcome = "returned"
    /\ ret <=>
         /\ argField # null
         /\ ~argField.disabled
         /\ ~Disqualified(argField)
         /\ \/ argField.type = "password"
            \/ argField.type = "text" /\ LooksLikePassword(argField)

\* A text field is accepted: one attribute says "password", another is set
\* and does not disqualify.
C3_Witness ==
  /\ CalledOn("isPasswordField")
  /\ argField.type = "text"
  /\ Cardinality(PresentValues(argField)) = 2
  /\ outcome = "returned"
  /\ ret = TRUE

\* A search field as the specification has it: a word of kind, name, id or
\* placeholder, split at the characters that are no letter and where an
\* upper-case letter follows a lower-case one, is in the search vocabulary.
SearchWordsOf(value) == SplitOnNonLetters(toLowerCase(CamelCaseSplit(value)))

IsSearchFieldBySpec(field) ==
  \E value \in {TypeString(field.type), field.name, field.id, field.placeholder}
                 \ {<< >>} :
    SearchWordsOf(value) \cap searchFieldNames # {}

\* C4: isUsernameField rejects every field one of whose kind, name, id or
\* placeholder holds, once split at non-letters and at camel-case
\* transitions, a word of {search, query, find, go}, whatever its other
\* attributes are.
C4_SearchFieldRejected ==
  ( /\ CalledOn("isUsernameField")
    /\ outcome = "returned"
    /\ argField # null
    /\ StringAttributes(argField)
    /\ IsSearchFieldBySpec(argField) ) => ret = FALSE

\* The username pattern: one of id, name, placeholder, label text and
\* aria-label, stripped to letters and digits, equals or contains a stripped
\* entry of the username vocabulary.
MatchesUsernameVocabulary(field) ==
  \E value \in {field.id, field.name, field.placeholder,
                getFieldLabel(document, field), field.ariaLabel} \ {<< >>} :
    \E n \in DOMAIN usernameFieldNames :
      includes(AlphaNumericOnly(toLowerCase(value)),
               AlphaNumericOnly(usernameFieldNames[n]))

\* C5: isUsernameField is true exactly when the field is present, not
\* disabled, of kind text, email or tel, no search field, strictly before
\* the password field in document order when one is given, and matches the
\* username pattern.
C5_UsernameFieldExactly ==
  ( /\ CalledOn("isUsernameField")
    /\ StringAttributes(argField)
    /\ argField = null \/ argField.dom ) =>
    /\ outcome = "returned"
    /\ ret <=>
         /\ argField # null
         /\ ~argField.disabled
         /\ argField.type \in {"text", "email", "tel"}
         /\ ~IsSearchFieldBySpec(argField)
         /\ argPassword # null =>
              PositionIn(document, argField) < PositionIn(document, argPassword)
         /\ MatchesUsernameVocabulary(argField)

\* C8: no operation signals an error, whatever field it is given: absent,
\* disabled, with an attribute that is no string, or without the methods of
\* an element.
C8_NeverThrows == step = "call" => outcome = "returned"

\* C9: a field of kind "password" or "text", not disabled, one of whose id,
\* name and placeholder equals or contains an entry of the exclude list as
\* the list has it, is classified false by isPasswordField.
C9_EveryEntryDisqualifies ==
  ( /\ CalledOn("isPasswordField")
    /\ outcome = "returned"
    /\ argField # null
    /\ ~argField.disabled
    /\ argField.type \in {"password", "text"}
    /\ \E value \in PresentValues(argField),
          k \in DOMAIN passwordFieldExcludeList :
         includes(value, passwordFieldExcludeList[k]) ) => ret = FALSE

\* C10: what detectUsernameFields, findUsernameForPassword and getLoginForms
\* return for a document is the same whatever the global document is: the
\* document itself or another tree.
C10_NoAmbientDocument ==
  step = "call" =>
    \A win \in {document, ForeignDocument} :
      /\ op = "detectUsernameFields" =>
           ret = detectUsernameFields(win, document, argPassword)
      /\ op = "findUsernameForPassword" =>
           ret = findUsernameForPassword(win, argPassword, document)
      /\ op = "getLoginForms" => ret = getLoginForms(win, document)

============================================================================
